---------------------------- MODULE Spec2Model ----------------------------
(***************************************************************************)
(* The expense tracker of src/app.py: the users and expenses tables, the   *)
(* /register, /add and /delete handlers that write them, and the queries   *)
(* of / (index) and /history that read them.                               *)
(*                                                                         *)
(* Amounts are whole numbers (a float that is integral is stored as an     *)
(* integer by the NUMERIC column), dates are <<month, day>> pairs compared *)
(* as the 'YYYY-MM-DD' strings are, and created_at is the value of a clock *)
(* with the resolution of the database's CURRENT_TIMESTAMP: one tick.      *)
(***************************************************************************)
EXTENDS Integers, Sequences, FiniteSets, TLC

VARIABLES users,     \* the users table: id -> [username, hash]
          expenses,  \* the expenses table: id -> row
          clock,     \* the database clock, in ticks of CURRENT_TIMESTAMP
          inflight,  \* /delete requests between their SELECT and their DELETE
          response,  \* what the handler that ran last answered
          page       \* the template context of the page rendered last

vars == <<users, expenses, clock, inflight, response, page>>

----------------------------------------------------------------------------
(* Bounds of the model.                                                    *)

\* the largest rowid the expenses table hands out
MaxRows == 2
\* the last tick of the clock
MaxClock == 1
\* the number of calendar months the drawn ledgers of SpecTrend span
TrendMonths == 7

(* Program constants.                                                      *)

\* LIMIT 10 of the recent expenses query
RecentLimit == 10
\* LIMIT 6 of the monthly trend query
TrendLimit == 6

NULL == "NULL"

\* the absent date field of the form
NoDate == <<>>

\* the pre-seeded categories table
categories ==
    (1 :> [name |-> "Food", color |-> "red"]) @@
    (2 :> [name |-> "Transport", color |-> "blue"])

\* the day the requests of a behaviour are made on: datetime.now()'s date
Today == <<1, 1>>

----------------------------------------------------------------------------
(* Helpers.                                                                *)

Max(S) == CHOOSE x \in S : \A y \in S : y <= x

Min(S) == CHOOSE x \in S : \A y \in S : x <= y

\* the rowid SQLite gives a new row of an INTEGER PRIMARY KEY table:
\* one more than the largest rowid in the table
NextRowid(table) == IF DOMAIN table = {} THEN 1 ELSE Max(DOMAIN table) + 1

\* the table with the row put under id
Insert(table, id, row) ==
    [i \in DOMAIN table \cup {id} |-> IF i = id THEN row ELSE table[i]]

\* the table without the rows whose id is in ids
Remove(table, ids) == [i \in DOMAIN table \ ids |-> table[i]]

\* Python's truth value of a form field: None and "" are false
Present(field) == field # NULL /\ field # ""

\* float(s) on the amount strings the model submits
Float(s) ==
    CASE s = "nan" -> [err |-> FALSE, nan |-> TRUE,  val |-> 0]
      [] s = "-1"  -> [err |-> FALSE, nan |-> FALSE, val |-> 0 - 1]
      [] s = "0"   -> [err |-> FALSE, nan |-> FALSE, val |-> 0]
      [] s = "1"   -> [err |-> FALSE, nan |-> FALSE, val |-> 1]
      [] s = "2"   -> [err |-> FALSE, nan |-> FALSE, val |-> 2]
      [] OTHER     -> [err |-> TRUE,  nan |-> FALSE, val |-> 0]

\* the value the INTEGER column category_id keeps of the form strings the
\* model submits
CategoryColumn(s) ==
    CASE s = "1" -> 1
      [] s = "2" -> 2
      [] s = "9" -> 9

\* 'YYYY-MM-DD' strings compared as strings: by month, then by day
DateLess(a, b) == a[1] < b[1] \/ (a[1] = b[1] /\ a[2] < b[2])

\* the first n elements of a sequence, or all of it: LIMIT n
Limit(seq, n) == SubSeq(seq, 1, IF Len(seq) < n THEN Len(seq) ELSE n)

\* list(reversed(seq))
Reversed(seq) == [i \in 1 .. Len(seq) |-> seq[Len(seq) + 1 - i]]

----------------------------------------------------------------------------
(* The handlers that write.  login_required lets a request through when   *)
(* the session holds a user_id, which /register and /login set to the id   *)
(* of a row of users: the user of a request is any registered user.        *)

\* the flashed message of a request, the session's user and the expense_id
\* of its URL (0 when it has none)
Answer(user, expense_id, flash) ==
    [user |-> user, expense_id |-> expense_id, flash |-> flash]

\* POST /register
Register(username, password, confirmation) ==
    /\ UNCHANGED <<expenses, clock, inflight, page>>
    /\ IF ~Present(username)
       THEN /\ response' = Answer(0, 0, "Must provide username")
            /\ UNCHANGED users
       ELSE IF ~Present(password)
       THEN /\ response' = Answer(0, 0, "Must provide password")
            /\ UNCHANGED users
       ELSE IF ~Present(confirmation)
       THEN /\ response' = Answer(0, 0, "Must confirm password")
            /\ UNCHANGED users
       ELSE IF password # confirmation
       THEN /\ response' = Answer(0, 0, "Passwords do not match")
            /\ UNCHANGED users
       ELSE IF \E id \in DOMAIN users : users[id].username = username
       THEN /\ response' = Answer(0, 0, "Username already exists")
            /\ UNCHANGED users
       ELSE LET id == NextRowid(users)
            IN  /\ users' = Insert(users, id,
                                   [username |-> username, hash |-> <<"hash", password>>])
                /\ response' = Answer(id, 0, "Registration successful!")

\* the INSERT of /add under the constraints of the expenses table
InsertExpense(user, category_id, amount, description, date) ==
    IF amount.nan
    THEN \* NaN is bound as NULL: NOT NULL constraint failed, the handler raises
         /\ response' = Answer(user, 0, "IntegrityError")
         /\ UNCHANGED expenses
    ELSE LET id == NextRowid(expenses)
         IN  /\ id <= MaxRows
             /\ expenses' = Insert(expenses, id,
                    [user_id     |-> user,
                     category_id |-> CategoryColumn(category_id),
                     amount      |-> amount.val,
                     description |-> description,
                     date        |-> date,
                     created_at  |-> clock])
             /\ response' = Answer(user, 0, "Expense added successfully!")

\* the amount check of /add: float(amount), ValueError when it is <= 0
AmountRejected(amount) ==
    LET f == Float(amount) IN f.err \/ (~f.nan /\ f.val <= 0)

\* POST /add by the logged-in user
Add(user, category_id, amount, description, date) ==
    /\ user \in DOMAIN users
    /\ UNCHANGED <<users, clock, inflight, page>>
    /\ IF ~Present(category_id)
       THEN /\ response' = Answer(user, 0, "Must select category")
            /\ UNCHANGED expenses
       ELSE IF ~Present(amount)
       THEN /\ response' = Answer(user, 0, "Must provide amount")
            /\ UNCHANGED expenses
       ELSE IF AmountRejected(amount)
       THEN /\ response' = Answer(user, 0, "Amount must be a positive number")
            /\ UNCHANGED expenses
       ELSE IF ~Present(description)
       THEN /\ response' = Answer(user, 0, "Must provide description")
            /\ UNCHANGED expenses
       ELSE InsertExpense(user, category_id, Float(amount), description,
                          IF date # NoDate THEN date ELSE Today)

OwnedRowOfAnyUser(user, expense_id) ==
    {id \in DOMAIN expenses : id = expense_id}

\* the ownership SELECT of /delete: the row with that id and that user_id
OwnedRow(user, expense_id) ==
    {id \in DOMAIN expenses : id = expense_id /\ expenses[id].user_id = user}

\* the DELETE of /delete: every row with that id
DeletedRows(expense_id) == {id \in DOMAIN expenses : id = expense_id}

\* a request worker that is not inside /delete
Idle == [user |-> 0, expense_id |-> 0]

\* POST /delete/<expense_id>, up to its ownership check
DeleteVerify(w, user, expense_id) ==
    /\ user \in DOMAIN users
    /\ inflight[w] = Idle
    /\ UNCHANGED <<users, expenses, clock, page>>
    /\ IF OwnedRow(user, expense_id) = {}
       THEN /\ response' = Answer(user, expense_id, "Expense not found")
            /\ UNCHANGED inflight
       ELSE /\ inflight' = [inflight EXCEPT ![w] =
                               [user |-> user, expense_id |-> expense_id]]
            /\ UNCHANGED response

\* POST /delete/<expense_id>, from its DELETE on
DeleteCommit(w) ==
    /\ inflight[w] # Idle
    /\ expenses' = Remove(expenses, DeletedRows(inflight[w].expense_id))
    /\ response' = Answer(inflight[w].user, inflight[w].expense_id,
                          "Expense deleted successfully!")
    /\ inflight' = [inflight EXCEPT ![w] = Idle]
    /\ UNCHANGED <<users, clock, page>>

\* a tick of the database clock
Tick ==
    /\ clock < MaxClock
    /\ clock' = clock + 1
    /\ UNCHANGED <<users, expenses, inflight, response, page>>

----------------------------------------------------------------------------
(* The queries.                                                            *)

RowsOfEveryUser(user) == DOMAIN expenses

\* FROM expenses WHERE user_id = ?
UserRows(user) == {id \in DOMAIN expenses : expenses[id].user_id = user}

\* FROM expenses e JOIN categories c ON e.category_id = c.id WHERE e.user_id = ?
JoinedRows(user) ==
    {id \in UserRows(user) : expenses[id].category_id \in DOMAIN categories}

RECURSIVE SumFrom(_, _)
\* the running sum of amount over the rows ids, scanned in rowid order
SumFrom(ids, acc) ==
    IF ids = {} THEN acc
    ELSE LET id == Min(ids) IN SumFrom(ids \ {id}, acc + expenses[id].amount)

\* SUM(amount): NULL over no rows
SqlSum(ids) ==
    IF ids = {} THEN [null |-> TRUE, val |-> 0]
    ELSE [null |-> FALSE, val |-> SumFrom(ids, 0)]

\* the total of the dashboard: SUM(amount) ... or 0
Total(user) ==
    LET total == SqlSum(UserRows(user))
    IN  IF total.null \/ total.val = 0 THEN 0 ELSE total.val

\* the rows of a user in one category: one group of GROUP BY c.id
GroupRows(user, c) == {id \in JoinedRows(user) : expenses[id].category_id = c}

GroupTotal(user, c) == SqlSum(GroupRows(user, c)).val

GroupBeforeAscending(user, c, d) ==
    \/ GroupTotal(user, c) < GroupTotal(user, d)
    \/ GroupTotal(user, c) = GroupTotal(user, d) /\ c < d

\* ORDER BY total DESC; groups of equal total stay in the order of c.id
GroupBefore(user, c, d) ==
    \/ GroupTotal(user, c) > GroupTotal(user, d)
    \/ GroupTotal(user, c) = GroupTotal(user, d) /\ c < d

RECURSIVE OrderedGroups(_, _)
OrderedGroups(user, groups) ==
    IF groups = {} THEN <<>>
    ELSE LET c == CHOOSE c \in groups :
                      \A d \in groups \ {c} : GroupBefore(user, c, d)
         IN  <<[name  |-> categories[c].name,
                color |-> categories[c].color,
                total |-> GroupTotal(user, c)]>>
             \o OrderedGroups(user, groups \ {c})

\* the expenses by category of the dashboard
ByCategory(user) ==
    OrderedGroups(user, {expenses[id].category_id : id \in JoinedRows(user)})

\* ORDER BY e.date DESC, e.created_at DESC; rows equal in both stay in rowid order
RowBefore(a, b) ==
    \/ DateLess(expenses[b].date, expenses[a].date)
    \/ /\ expenses[a].date = expenses[b].date
       /\ \/ expenses[a].created_at > expenses[b].created_at
          \/ expenses[a].created_at = expenses[b].created_at /\ a < b

\* SELECT e.*, c.name as category_name, c.color
JoinedRow(id) ==
    [id            |-> id,
     user_id       |-> expenses[id].user_id,
     category_id   |-> expenses[id].category_id,
     amount        |-> expenses[id].amount,
     description   |-> expenses[id].description,
     date          |-> expenses[id].date,
     created_at    |-> expenses[id].created_at,
     category_name |-> categories[expenses[id].category_id].name,
     color         |-> categories[expenses[id].category_id].color]

RECURSIVE OrderedRows(_)
OrderedRows(ids) ==
    IF ids = {} THEN <<>>
    ELSE LET a == CHOOSE a \in ids : \A b \in ids \ {a} : RowBefore(a, b)
         IN  <<JoinedRow(a)>> \o OrderedRows(ids \ {a})

\* the expenses of /history
ListAll(user) == OrderedRows(JoinedRows(user))

\* the recent expenses of the dashboard: the same query with LIMIT 10
Recent(user) == Limit(OrderedRows(JoinedRows(user)), RecentLimit)

\* strftime('%Y-%m', date)
MonthOf(date) == date[1]

MonthRows(user, month) ==
    {id \in UserRows(user) : MonthOf(expenses[id].date) = month}

RECURSIVE Descending(_)
\* ORDER BY month DESC
Descending(months) ==
    IF months = {} THEN <<>>
    ELSE <<Max(months)>> \o Descending(months \ {Max(months)})

\* GROUP BY month ORDER BY month DESC LIMIT 6
MonthlyQuery(user) ==
    LET months == Descending({MonthOf(expenses[id].date) : id \in UserRows(user)})
    IN  Limit([i \in 1 .. Len(months) |->
                  [month |-> months[i],
                   total |-> SqlSum(MonthRows(user, months[i])).val]],
              TrendLimit)

MonthlyExpensesNewestFirst(user) == MonthlyQuery(user)

\* the monthly trend of the dashboard: list(reversed(monthly_expenses))
MonthlyExpenses(user) == Reversed(MonthlyQuery(user))

\* GET /
Index(user) ==
    /\ user \in DOMAIN users
    /\ page' = [route                |-> "index",
                user                 |-> user,
                total                |-> Total(user),
                expenses_by_category |-> ByCategory(user),
                recent_expenses      |-> Recent(user),
                monthly_expenses     |-> MonthlyExpenses(user)]
    /\ UNCHANGED <<users, expenses, clock, inflight, response>>

\* GET /history
History(user) ==
    /\ user \in DOMAIN users
    /\ page' = [route |-> "history", user |-> user, expenses |-> ListAll(user)]
    /\ UNCHANGED <<users, expenses, clock, inflight, response>>

----------------------------------------------------------------------------
(* The specifications.  Each explores the handlers over its own bounded    *)
(* set of form fields.                                                     *)

\* the state after init_db, with the given request workers
Start(workers) ==
    /\ users = <<>>
    /\ expenses = <<>>
    /\ clock = 0
    /\ inflight = [w \in workers |-> Idle]
    /\ response = Answer(0, 0, "")
    /\ page = [route |-> "none"]

ExpenseIds == 1 .. (MaxRows + 1)

(* The ledger: two users file well-formed expenses, some under a category  *)
(* id no category has, and delete them, one request at a time.             *)

Init == Start({1})

Next ==
    \/ \E n \in {"ann", "bob"} : Register(n, "pw", "pw")
    \/ \E u \in DOMAIN users, c \in {"1", "2", "9"}, a \in {"1", "2"} :
          Add(u, c, a, "lunch", NoDate)
    \/ \E w \in DOMAIN inflight, u \in DOMAIN users, id \in ExpenseIds :
          DeleteVerify(w, u, id)
    \/ \E w \in DOMAIN inflight : DeleteCommit(w)

Spec == Init /\ [][Next]_vars

(* The forms: every way the fields of /register and /add can be wrong.     *)

Usernames == {"", "ann", "bob"}
Passwords == {"", "pw"}
Confirmations == {"", "pw", "pv"}
CategoryFields == {NULL, "1", "9"}
AmountFields == {NULL, "abc", "nan", "-1", "0", "1", "2"}
DescriptionFields == {"", "lunch"}

InitForms == Start({1})

NextForms ==
    \/ \E n \in Usernames, p \in Passwords, c \in Confirmations : Register(n, p, c)
    \/ \E u \in DOMAIN users, c \in CategoryFields, a \in AmountFields,
          d \in DescriptionFields : Add(u, c, a, d, NoDate)
    \/ \E w \in DOMAIN inflight, u \in DOMAIN users, id \in ExpenseIds :
          DeleteVerify(w, u, id)
    \/ \E w \in DOMAIN inflight : DeleteCommit(w)

SpecForms == InitForms /\ [][NextForms]_vars

(* The race: two request workers serve /delete and /add concurrently.      *)

InitRace == Start({1, 2})

NextRace ==
    \/ \E n \in {"ann", "bob"} : Register(n, "pw", "pw")
    \/ \E u \in DOMAIN users : Add(u, "1", "1", "lunch", NoDate)
    \/ \E w \in DOMAIN inflight, u \in DOMAIN users, id \in ExpenseIds :
          DeleteVerify(w, u, id)
    \/ \E w \in DOMAIN inflight : DeleteCommit(w)

SpecRace == InitRace /\ [][NextRace]_vars

(* The history: one user files expenses under two dates while the clock    *)
(* ticks, and reads them back.                                             *)

DateFields == {NoDate, <<1, 2>>}

InitHistory == Start({1})

NextHistory ==
    \/ Register("ann", "pw", "pw")
    \/ \E u \in DOMAIN users, d \in DateFields : Add(u, "1", "1", "lunch", d)
    \/ \E w \in DOMAIN inflight, u \in DOMAIN users, id \in ExpenseIds :
          DeleteVerify(w, u, id)
    \/ \E w \in DOMAIN inflight : DeleteCommit(w)
    \/ Tick
    \/ \E u \in DOMAIN users : History(u)
    \/ \E u \in DOMAIN users : Index(u)

SpecHistory == InitHistory /\ [][NextHistory]_vars

(* The trend: the dashboard read over ledgers that span TrendMonths        *)
(* calendar months.  A ledger is drawn month by month: no expense, one     *)
(* expense of user 1, two of user 1 on two days, or one of each user.      *)

MonthCells ==
    << <<>>,
       <<[user_id |-> 1, amount |-> 1, day |-> 1]>>,
       <<[user_id |-> 1, amount |-> 1, day |-> 1],
         [user_id |-> 1, amount |-> 2, day |-> 2]>>,
       <<[user_id |-> 1, amount |-> 2, day |-> 1],
         [user_id |-> 2, amount |-> 1, day |-> 1]>> >>

RECURSIVE DrawnRows(_, _)
\* the rows of the months 1 .. month, in the order they were filed
DrawnRows(cells, month) ==
    IF month = 0 THEN <<>>
    ELSE DrawnRows(cells, month - 1) \o
         [i \in 1 .. Len(MonthCells[cells[month]]) |->
             [user_id     |-> MonthCells[cells[month]][i].user_id,
              category_id |-> 1,
              amount      |-> MonthCells[cells[month]][i].amount,
              description |-> "lunch",
              date        |-> <<month, MonthCells[cells[month]][i].day>>,
              created_at  |-> 0]]

InitTrend ==
    /\ users = <<[username |-> "ann", hash |-> <<"hash", "pw">>],
                 [username |-> "bob", hash |-> <<"hash", "pw">>]>>
    /\ \E cells \in [1 .. TrendMonths -> 1 .. Len(MonthCells)] :
          expenses = DrawnRows(cells, TrendMonths)
    /\ clock = 0
    /\ inflight = [w \in {1} |-> Idle]
    /\ response = Answer(0, 0, "")
    /\ page = [route |-> "none"]

NextTrend == \E u \in DOMAIN users : Index(u)

SpecTrend == InitTrend /\ [][NextTrend]_vars

----------------------------------------------------------------------------
(* The claims.                                                             *)

UserIds == {1, 2}

RECURSIVE SumOfValues(_, _)
SumOfValues(values, ids) ==
    IF values = {} THEN 0
    ELSE LET v == CHOOSE v \in values : TRUE
         IN  v * Cardinality({id \in ids : expenses[id].amount = v})
             + SumOfValues(values \ {v}, ids)

\* the arithmetic sum of amount over the rows ids: each amount times the
\* number of rows that carry it
ArithmeticSum(ids) == SumOfValues({expenses[id].amount : id \in ids}, ids)

\* the expense rows a user owns
Owned(user) == {id \in DOMAIN expenses : expenses[id].user_id = user}

RECURSIVE SumOfTotals(_)
SumOfTotals(rows) ==
    IF rows = <<>> THEN 0 ELSE Head(rows).total + SumOfTotals(Tail(rows))

\* C1: a /delete of an id that names no expense row of the caller (no row at
\* all, or another user's row) answers "Expense not found", leaves every
\* expense row as it was and goes no further (it reaches no DELETE).
C1_DeleteOfUnownedIsNotFound ==
    [][\A w \in DOMAIN inflight, u \in DOMAIN users, id \in ExpenseIds :
          (DeleteVerify(w, u, id) /\ id \notin Owned(u))
          => /\ response'.flash = "Expense not found"
             /\ response'.user = u /\ response'.expense_id = id
             /\ expenses' = expenses
             /\ inflight' = inflight]_vars

\* a /delete of another user's row has been answered "Expense not found"
\* and the row is there
C1_Witness ==
    /\ response.flash = "Expense not found"
    /\ response.expense_id \in DOMAIN expenses
    /\ expenses[response.expense_id].user_id # response.user

\* an amount field that parses to a positive decimal
IsPositiveDecimal(amount) == amount \in {"1", "2"}

AmountErrors == {"Must provide amount", "Amount must be a positive number"}

\* C2: /add reports the first failing field in the order category, amount,
\* description: a missing category whatever the other fields are, an invalid
\* amount when the category is present whatever the description is, an empty
\* description when category and amount are valid.
C2_FirstFailingFieldIsReported ==
    [][\A u \in DOMAIN users, c \in CategoryFields, a \in AmountFields,
          d \in DescriptionFields :
          Add(u, c, a, d, NoDate)
          => /\ ~Present(c) => response'.flash = "Must select category"
             /\ (Present(c) /\ ~IsPositiveDecimal(a))
                => response'.flash \in AmountErrors
             /\ (Present(c) /\ IsPositiveDecimal(a) /\ ~Present(d))
                => response'.flash = "Must provide description"]_vars

\* C3: an /add with a category whose amount is missing, is not a number or is
\* a number <= 0 answers an amount error and inserts nothing: the expense
\* rows are the same after it as before.
C3_BadAmountIsRejectedWithoutInsert ==
    [][\A u \in DOMAIN users, c \in CategoryFields, a \in AmountFields,
          d \in DescriptionFields :
          (Add(u, c, a, d, NoDate) /\ Present(c) /\ ~IsPositiveDecimal(a))
          => /\ response'.flash \in AmountErrors
             /\ expenses' = expenses]_vars

\* C4: the total of a user is the arithmetic sum of amount over exactly the
\* expense rows the user owns, and the number 0 when the user owns none.
C4_TotalIsSumOfOwnRows ==
    \A u \in UserIds :
        /\ Total(u) = ArithmeticSum(Owned(u))
        /\ Owned(u) = {} => Total(u) = 0

\* a user owns an expense of 2 and the only expense of another user has just
\* been deleted
C4_Witness ==
    /\ response.flash = "Expense deleted successfully!"
    /\ \E u \in UserIds : Owned(u) = {} /\ Total(u) = 0 /\ response.user = u
    /\ \E u \in UserIds : Owned(u) # {} /\ Total(u) = 2

\* C5: the totals of the rows of by_category add up to the total of the user.
C5_CategoryTotalsAddUpToTotal ==
    \A u \in UserIds : SumOfTotals(ByCategory(u)) = Total(u)

\* C6 as amended: the rows of by_category are sorted descending by total: no
\* row's total is smaller than the total of the row after it.
C6_ByCategoryIsDescending ==
    \A u \in UserIds :
        \A i \in 1 .. Len(ByCategory(u)) - 1 :
            ByCategory(u)[i].total >= ByCategory(u)[i + 1].total

\* C6 as stated: each row's total is strictly greater than the total of the
\* row after it.
C6_ByCategoryIsStrictlyDescending ==
    \A u \in UserIds :
        \A i \in 1 .. Len(ByCategory(u)) - 1 :
            ByCategory(u)[i].total > ByCategory(u)[i + 1].total

\* a user has expenses in two categories with different sums, listed largest
\* first
C6_Witness ==
    \E u \in UserIds :
        /\ Len(ByCategory(u)) = 2
        /\ ByCategory(u)[1].name = "Transport"
        /\ ByCategory(u)[1].total > ByCategory(u)[2].total

\* C7: recent is the first 10 rows of list_all, and list_all holds only the
\* caller's expenses, by date descending and, within a date, by created_at
\* descending, so that of two expenses of one day the one created later
\* comes first.  A new row's id is above every id in the table, so of two
\* rows the one with the larger id was created later.
C7_RecentIsNewestFirstPrefixOfListAll ==
    \A u \in DOMAIN users :
        LET all == ListAll(u)
        IN  /\ Recent(u) = Limit(all, RecentLimit)
            /\ \A i \in 1 .. Len(all) : all[i].user_id = u
            /\ \A i, j \in 1 .. Len(all) :
                  i < j =>
                    /\ ~DateLess(all[i].date, all[j].date)
                    /\ all[i].date = all[j].date
                       => /\ all[i].created_at >= all[j].created_at
                          /\ all[i].id > all[j].id

\* the months in which a user has an expense
MonthsOf(user) == {expenses[id].date[1] : id \in Owned(user)}

\* the TrendLimit most recent of them
RecentMonths(user) ==
    {m \in MonthsOf(user) :
        Cardinality({n \in MonthsOf(user) : n > m}) < TrendLimit}

\* C8: the monthly trend has one entry for each of the 6 most recent months
\* in which the user has an expense and no other, each with the sum of the
\* user's amounts of that month, in ascending month order.
C8_TrendIsLastSixMonthsAscending ==
    page.route = "index" =>
        LET trend == page.monthly_expenses
            u == page.user
        IN  /\ {trend[i].month : i \in 1 .. Len(trend)} = RecentMonths(u)
            /\ \A i, j \in 1 .. Len(trend) :
                  i < j => trend[i].month < trend[j].month
            /\ \A i \in 1 .. Len(trend) :
                  trend[i].total =
                    ArithmeticSum({id \in Owned(u) :
                                      expenses[id].date[1] = trend[i].month})

\* the dashboard of a user with expenses in more than 6 months, two of them
\* in one month: the trend starts at the sixth most recent month
C8_Witness ==
    /\ page.route = "index"
    /\ Cardinality(MonthsOf(page.user)) > TrendLimit
    /\ Len(page.monthly_expenses) = TrendLimit
    /\ page.monthly_expenses[1].month = Min(RecentMonths(page.user))
    /\ \E i \in 1 .. TrendLimit : page.monthly_expenses[i].total = 3

\* C9: every stored expense has an existing user, an existing category and
\* an amount above 0.
C9_EveryExpenseHasUserCategoryAndPositiveAmount ==
    \A id \in DOMAIN expenses :
        /\ expenses[id].user_id \in DOMAIN users
        /\ expenses[id].category_id \in DOMAIN categories
        /\ expenses[id].amount > 0

\* C10: the DELETE of a /delete issued for a user removes no expense row
\* that is not that user's when it is removed.
C10_DeleteRemovesOnlyOwnRows ==
    [][\A w \in DOMAIN inflight :
          DeleteCommit(w)
          => \A id \in DOMAIN expenses \ DOMAIN expenses' :
                expenses[id].user_id = inflight[w].user]_vars

=============================================================================
